---- MODULE Spec2Model ----
(***************************************************************************)
(* AgentOps-Lite: the observability pipeline (LoggingService), the stage   *)
(* graph with its critic loop, and the execution governor (AgentExecutor). *)
(*                                                                         *)
(* Six specifications share the variables:                                 *)
(*   SpecLog    - one LoggingService, its producers and a flush() caller   *)
(*   SpecRun    - one run of the stage graph under one invocation mode     *)
(*   SpecRoute  - route_after_critic applied to an arbitrary State         *)
(*   SpecPair   - two execute() calls that overlap in one process          *)
(*   SpecTool   - ToolRegistry.execute and ToolExecution.run on a State    *)
(*   SpecCritic - CriticNode.run applied to an arbitrary State             *)
(***************************************************************************)
EXTENDS Integers, Sequences, FiniteSets, TLC

\* ------------------------------------------------------------------ bounds
\* log_event calls made by each producer
MaxEvents == 2
\* the buffer_size constructor argument of LoggingService
BufferSize == 1
\* flush() executions the controlling thread begins at any moment, directly or
\* within shutdown()
MaxFlushCalls == 1
\* further flush() executions, begun while the service is at rest (AtRest)
MaxRepeats == 1
\* retries / max_retries values drawn for route_after_critic's input
MaxRetriesBound == 2

Null == "null"

\* critic_reason: None, a rejection reason, or the reason of a 'fail' decision,
\* which prefixes the rejection reason with the retries-exceeded text
NoReason == [exceeded |-> FALSE, why |-> Null]
Reason(why) == [exceeded |-> FALSE, why |-> why]
Exceeded(why) == [exceeded |-> TRUE, why |-> why]
\* "超出最大重试次数" in reason
IsExceeded(reason) == reason.exceeded

\* ExecutionResult with the declared defaults of its optional fields
BlankResult ==
    [kind |-> "result", status |-> Null, termination_reason |-> Null, steps_count |-> 0,
     answer |-> Null, triggered_rag |-> FALSE, retries_count |-> 0,
     error_message |-> Null, error_type |-> Null]
\* no Result yet
NoResult == [BlankResult EXCEPT !.kind = Null]

\* history of a run: the retrieval stage has run in the current graph
\* execution; max_execution_time has elapsed during the run; the
\* termination.timeout event has been emitted; the stages that have returned
\* in the run; the 'node_execution' elements stream() has yielded; the
\* consumer of stream() has stopped iterating; the initial_state argument the
\* run was called with; the event types the executor has logged for the run
NoHistory ==
    [retrieval_ran |-> FALSE, expired |-> FALSE, timeout_event |-> FALSE,
     completed |-> 0, yielded |-> 0, stopped |-> FALSE,
     initial_state |-> [given |-> FALSE, max_retries |-> 0], events |-> <<>>]

\* ============================================================ LoggingService
Producers == {"x1", "x2"}
\* self.sinks, in list order
Sinks == <<"s1", "s2">>
SinkIds == 1..Len(Sinks)

VARIABLES
    enable_async,   \* LoggingService.enable_async
    failing,        \* indices of the sinks whose _write_impl raises
    event_queue,    \* LoggingService._event_queue
    running,        \* LoggingService._running
    worker,         \* the background thread: "none" | "started" | "dead"
    ppc,            \* per producer: "idle" | "sync" | "raised"
    psent,          \* per producer: log_event calls begun
    psink,          \* per producer: next sink index of _write_sync
    written,        \* per sink index: the events _write_impl has stored, in order
    fpc,            \* flush(): "idle" | "get" | "write" | "sinks" | "raised"
    fbatch,         \* flush(): its local batch
    fi,             \* flush(): index of the batch event being written
    fs,             \* flush(): index of the sink being written
    fcalls,         \* flush() calls begun
    fellBack,       \* history: events for which put_nowait raised Full
    handled,        \* history: events whose _write_sync / _flush_batch pass finished
    shut,           \* shutdown(): "no" | "join" | "flush" | "returned"
    accepted        \* history: events whose log_event call had returned when the flush()
                    \* in progress, or the latest shutdown(), was called

logVars == <<enable_async, failing, event_queue, running, worker, ppc, psent, psink,
             written, fpc, fbatch, fi, fs, fcalls, fellBack, handled, shut, accepted>>

VARIABLES
    mode,           \* "execute" | "execute_async" | "stream" | "graph" (graph.invoke called directly)
    max_steps,      \* ExecutionConfig.max_steps
    return_final_state, \* ExecutionConfig.return_final_state
    st,             \* the graph's State channels
    node,           \* the node the graph runs next, or "END"
    inStage,        \* a stage has started and not yet returned
    gstep,          \* stages started in the current graph execution
    gpass,          \* 1, or 2 in stream()'s second graph execution
    criticEvals,    \* critic stages finished in the current graph execution
    fault,          \* the exception that left the graph, or Null
    xpc,            \* "graph" (the graph is executing) | "done" (the call is over)
    trace,          \* ExecutionTrace
    result,         \* what the caller received, or NoResult
    hist            \* history of the run: see NoHistory

runVars == <<mode, max_steps, return_final_state, st, node, inStage, gstep, gpass,
             criticEvals, fault, xpc, trace, result, hist>>

VARIABLES
    routeIn,        \* the State handed to route_after_critic
    routeOut        \* what route_after_critic returned, or "unset"

routeVars == <<routeIn, routeOut>>

VARIABLES
    placement,      \* where the second execute() runs: "threads" | "nested"
    rpc,            \* per run: "idle" | "graph" | "done"
    rstatus,        \* per run: the status of its Result, or Null
    rover,          \* per run: its max_execution_time has elapsed while it ran
    rsteps,         \* per run: stages its graph has completed
    alarm           \* the process's one SIGALRM timer: "off", or the run that armed it last

pairVars == <<placement, rpc, rstatus, rover, rsteps, alarm>>

VARIABLES
    tools,          \* the names in ToolRegistry._tools
    tstate,         \* the State handed to execute / run: plan, tool_calls, observations
    tout,           \* how the latest call ended: what it returned or raised
    tops            \* calls made

toolVars == <<tools, tstate, tout, tops>>

VARIABLES
    criticIn,       \* the State handed to CriticNode.run
    criticOut       \* what CriticNode.run returned or raised, or the fault "unset"

criticVars == <<criticIn, criticOut>>

harnessVars == <<routeVars, pairVars, toolVars, criticVars>>

vars == <<logVars, runVars, harnessVars>>

\* Queue(maxsize=buffer_size * 2)
QueueMaxSize == BufferSize * 2

\* the event built by the k-th log_event call of the run with execution_id p
Event(p, k) == [execution_id |-> p, seq |-> k]
AllEvents == {Event(p, k) : p \in Producers, k \in 1..MaxEvents}

\* LogSink.write: True when _write_impl stored the event, False when it raised
write(s) == IF s \in failing THEN "false" ELSE "ok"

\* the sink's store after write(event)
Stored(s, e) == IF write(s) = "ok" THEN [written EXCEPT ![s] = Append(@, e)] ELSE written

\* the values the variables of the other specifications rest at
RunIdle ==
    /\ mode = Null /\ max_steps = 0 /\ return_final_state = FALSE /\ st = Null
    /\ node = Null /\ inStage = FALSE /\ gstep = 0 /\ gpass = 0 /\ criticEvals = 0
    /\ fault = Null /\ xpc = Null /\ trace = Null /\ result = NoResult
    /\ hist = NoHistory
RouteIdle == routeIn = Null /\ routeOut = Null
PairIdle ==
    /\ placement = Null /\ rpc = Null /\ rstatus = Null /\ rover = Null
    /\ rsteps = Null /\ alarm = Null
ToolIdle == tools = {} /\ tstate = Null /\ tout = Null /\ tops = 0
CriticIdle == criticIn = Null /\ criticOut = Null
LogIdle ==
    /\ enable_async = FALSE /\ failing = {} /\ event_queue = <<>> /\ running = FALSE
    /\ worker = Null /\ ppc = Null /\ psent = Null /\ psink = Null /\ written = Null
    /\ fpc = Null /\ fbatch = <<>> /\ fi = 0 /\ fs = 0 /\ fcalls = 0
    /\ fellBack = {} /\ handled = {} /\ shut = Null /\ accepted = {}

InitLog ==
    /\ enable_async \in BOOLEAN
    /\ failing \in SUBSET SinkIds
    /\ event_queue = <<>>
    /\ running = enable_async
    /\ worker = IF enable_async THEN "started" ELSE "none"
    /\ ppc = [p \in Producers |-> "idle"]
    /\ psent = [p \in Producers |-> 0]
    /\ psink = [p \in Producers |-> 1]
    /\ written = [s \in SinkIds |-> <<>>]
    /\ fpc = "idle"
    /\ fbatch = <<>>
    /\ fi = 1
    /\ fs = 1
    /\ fcalls = 0
    /\ fellBack = {}
    /\ handled = {}
    /\ shut = "no"
    /\ accepted = {}
    /\ RunIdle
    /\ RouteIdle /\ PairIdle /\ ToolIdle /\ CriticIdle

\* _worker_loop: its second statement reads time.time(), and the module never
\* binds the name time, so the thread ends with NameError before its loop
worker_loop ==
    /\ worker = "started"
    /\ worker' = "dead"
    /\ UNCHANGED <<enable_async, failing, event_queue, running, ppc, psent, psink,
                   written, fpc, fbatch, fi, fs, fcalls, fellBack, handled>>
    /\ UNCHANGED <<shut, accepted, runVars, harnessVars>>

\* log_event that drops the event when the queue is full
log_event_drop(p) ==
    /\ ppc[p] = "idle"
    /\ psent[p] < MaxEvents
    /\ psent' = [psent EXCEPT ![p] = @ + 1]
    /\ LET e == Event(p, psent[p] + 1) IN
        IF enable_async
        THEN /\ event_queue' = IF Len(event_queue) < QueueMaxSize
                               THEN Append(event_queue, e) ELSE event_queue
             /\ UNCHANGED <<ppc, psink, fellBack>>
        ELSE /\ ppc' = [ppc EXCEPT ![p] = "sync"]
             /\ psink' = [psink EXCEPT ![p] = 1]
             /\ UNCHANGED <<event_queue, fellBack>>
    /\ UNCHANGED <<enable_async, failing, running, worker, written, fpc, fbatch, fi, fs,
                   fcalls, handled>>
    /\ UNCHANGED <<shut, accepted, runVars, harnessVars>>

\* log_event up to its put_nowait: the event is queued, or the call turns to
\* _write_sync (queue full, or enable_async off)
log_event(p) ==
    /\ ppc[p] = "idle"
    /\ psent[p] < MaxEvents
    /\ psent' = [psent EXCEPT ![p] = @ + 1]
    /\ LET e == Event(p, psent[p] + 1) IN
        IF enable_async /\ Len(event_queue) < QueueMaxSize
        THEN /\ event_queue' = Append(event_queue, e)
             /\ UNCHANGED <<ppc, psink, fellBack>>
        ELSE /\ ppc' = [ppc EXCEPT ![p] = "sync"]
             /\ psink' = [psink EXCEPT ![p] = 1]
             /\ fellBack' = IF enable_async THEN fellBack \cup {e} ELSE fellBack
             /\ UNCHANGED event_queue
    /\ UNCHANGED <<enable_async, failing, running, worker, written, fpc, fbatch, fi, fs,
                   fcalls, handled>>
    /\ UNCHANGED <<shut, accepted, runVars, harnessVars>>

\* _write_sync: one sink.write per step, then log_event returns
write_sync(p) ==
    /\ ppc[p] = "sync"
    /\ LET e == Event(p, psent[p])
           s == psink[p] IN
        /\ written' = Stored(s, e)
        /\ IF write(s) = "raise"
           THEN /\ ppc' = [ppc EXCEPT ![p] = "raised"]
                /\ UNCHANGED <<psink, handled>>
           ELSE IF s = Len(Sinks)
           THEN /\ ppc' = [ppc EXCEPT ![p] = "idle"]
                /\ handled' = handled \cup {e}
                /\ UNCHANGED psink
           ELSE /\ psink' = [psink EXCEPT ![p] = s + 1]
                /\ UNCHANGED <<ppc, handled>>
    /\ UNCHANGED <<enable_async, failing, event_queue, running, worker, psent, fpc, fbatch,
                   fi, fs, fcalls, fellBack>>
    /\ UNCHANGED <<shut, accepted, runVars, harnessVars>>

\* the events whose log_event call has returned
Accepted ==
    {e \in AllEvents : e.seq <= psent[e.execution_id]
                        /\ ~(ppc[e.execution_id] = "sync" /\ e.seq = psent[e.execution_id])}

\* nothing is queued, and every producer has made its calls and returned
AtRest == event_queue = <<>> /\ \A p \in Producers : ppc[p] = "idle" /\ psent[p] = MaxEvents

\* the controlling thread makes its next call: at any moment for the first
\* MaxFlushCalls flush() executions, at rest for MaxRepeats more
CallAllowed ==
    \/ fcalls < MaxFlushCalls
    \/ fcalls < MaxFlushCalls + MaxRepeats /\ AtRest

\* flush() is called: batch = []
flush_call ==
    /\ fpc = "idle"
    /\ shut = "no"
    /\ CallAllowed
    /\ fcalls' = fcalls + 1
    /\ fpc' = "get"
    /\ fbatch' = <<>>
    /\ accepted' = Accepted
    /\ UNCHANGED <<enable_async, failing, event_queue, running, worker, ppc, psent, psink,
                   written, fi, fs, fellBack, handled>>
    /\ UNCHANGED <<shut, runVars, harnessVars>>

\* flush() that takes at most one event from the queue
flush_get_one ==
    /\ fpc = "get"
    /\ IF event_queue # <<>>
       THEN /\ fbatch' = <<Head(event_queue)>>
            /\ event_queue' = Tail(event_queue)
            /\ fpc' = "write"
       ELSE /\ fpc' = "sinks"
            /\ UNCHANGED <<fbatch, event_queue>>
    /\ fi' = 1
    /\ fs' = 1
    /\ UNCHANGED <<enable_async, failing, running, worker, ppc, psent, psink, written,
                   fcalls, fellBack, handled>>
    /\ UNCHANGED <<shut, accepted, runVars, harnessVars>>

\* flush(): while not empty(): batch.append(get_nowait()); then _flush_batch if batch
flush_get ==
    /\ fpc = "get"
    /\ IF event_queue # <<>>
       THEN /\ fbatch' = Append(fbatch, Head(event_queue))
            /\ event_queue' = Tail(event_queue)
            /\ UNCHANGED <<fpc, fi, fs>>
       ELSE /\ fpc' = IF fbatch = <<>> THEN "sinks" ELSE "write"
            /\ fi' = 1
            /\ fs' = 1
            /\ UNCHANGED <<fbatch, event_queue>>
    /\ UNCHANGED <<enable_async, failing, running, worker, ppc, psent, psink, written,
                   fcalls, fellBack, handled>>
    /\ UNCHANGED <<shut, accepted, runVars, harnessVars>>

\* _flush_batch that writes each event of the batch to the first sink only
flush_batch_first ==
    /\ fpc = "write"
    /\ LET e == fbatch[fi] IN
        /\ written' = Stored(fs, e)
        /\ IF write(fs) = "raise"
           THEN /\ fpc' = "raised"
                /\ UNCHANGED <<fi, fs, handled>>
           ELSE /\ handled' = handled \cup {e}
                /\ fs' = 1
                /\ IF fi < Len(fbatch)
                   THEN fi' = fi + 1 /\ UNCHANGED fpc
                   ELSE fpc' = "sinks" /\ UNCHANGED fi
    /\ UNCHANGED <<enable_async, failing, event_queue, running, worker, ppc, psent, psink,
                   fbatch, fcalls, fellBack>>
    /\ UNCHANGED <<shut, accepted, runVars, harnessVars>>

\* _flush_batch: for event in batch: for sink in sinks: sink.write(event)
flush_batch ==
    /\ fpc = "write"
    /\ LET e == fbatch[fi] IN
        /\ written' = Stored(fs, e)
        /\ IF write(fs) = "raise"
           THEN /\ fpc' = "raised"
                /\ UNCHANGED <<fi, fs, handled>>
           ELSE IF fs < Len(Sinks)
           THEN /\ fs' = fs + 1
                /\ UNCHANGED <<fpc, fi, handled>>
           ELSE /\ handled' = handled \cup {e}
                /\ fs' = 1
                /\ IF fi < Len(fbatch)
                   THEN fi' = fi + 1 /\ UNCHANGED fpc
                   ELSE fpc' = "sinks" /\ UNCHANGED fi
    /\ UNCHANGED <<enable_async, failing, event_queue, running, worker, ppc, psent, psink,
                   fbatch, fcalls, fellBack>>
    /\ UNCHANGED <<shut, accepted, runVars, harnessVars>>

\* flush(): for sink in sinks: sink.flush(); then flush() returns
flush_sinks ==
    /\ fpc = "sinks"
    /\ fpc' = "idle"
    /\ fbatch' = <<>>
    /\ shut' = IF shut = "flush" THEN "returned" ELSE shut
    /\ accepted' = IF shut = "flush" THEN accepted ELSE {}
    /\ UNCHANGED <<enable_async, failing, event_queue, running, worker, ppc, psent, psink,
                   written, fi, fs, fcalls, fellBack, handled>>
    /\ UNCHANGED <<runVars, harnessVars>>

\* shutdown() that raises when the service has been shut down before
shutdown_call_once ==
    /\ shut \in {"no", "returned"}
    /\ fpc = "idle"
    /\ CallAllowed
    /\ running' = FALSE
    /\ fpc' = IF shut = "returned" THEN "raised" ELSE fpc
    /\ shut' = IF shut = "returned" THEN shut ELSE "join"
    /\ accepted' = Accepted
    /\ UNCHANGED <<enable_async, failing, event_queue, worker, ppc, psent, psink, written,
                   fbatch, fi, fs, fcalls, fellBack, handled>>
    /\ UNCHANGED <<runVars, harnessVars>>

\* shutdown() is called by the thread that calls flush(): self._running = False
shutdown_call ==
    /\ shut \in {"no", "returned"}
    /\ fpc = "idle"
    /\ CallAllowed
    /\ running' = FALSE
    /\ shut' = "join"
    /\ accepted' = Accepted
    /\ UNCHANGED <<enable_async, failing, event_queue, worker, ppc, psent, psink, written,
                   fpc, fbatch, fi, fs, fcalls, fellBack, handled>>
    /\ UNCHANGED <<runVars, harnessVars>>

\* shutdown() that returns after the join, without its flush()
shutdown_join_only ==
    /\ shut = "join"
    /\ worker # "started"
    /\ shut' = "returned"
    /\ UNCHANGED <<enable_async, failing, event_queue, running, worker, ppc, psent, psink,
                   written, fpc, fbatch, fi, fs, fcalls, fellBack, handled>>
    /\ UNCHANGED <<accepted, runVars, harnessVars>>

\* shutdown(): self._worker_thread.join(timeout=5.0) returns once the thread
\* has ended (its one step is the failing first statement of _worker_loop, or
\* there is no thread), then flush() is called
shutdown_join ==
    /\ shut = "join"
    /\ worker # "started"
    /\ shut' = "flush"
    /\ fcalls' = fcalls + 1
    /\ fpc' = "get"
    /\ fbatch' = <<>>
    /\ UNCHANGED <<enable_async, failing, event_queue, running, worker, ppc, psent, psink,
                   written, fi, fs, fellBack, handled>>
    /\ UNCHANGED <<accepted, runVars, harnessVars>>

NextLog ==
    \/ worker_loop
    \/ \E p \in Producers : log_event(p)
    \/ \E p \in Producers : write_sync(p)
    \/ flush_call
    \/ flush_get
    \/ flush_batch
    \/ flush_sinks
    \/ shutdown_call
    \/ shutdown_join

SpecLog == InitLog /\ [][NextLog]_vars

\* ------------------------------------------------------- pipeline properties
Healthy == SinkIds \ failing
Count(seq, e) == Cardinality({i \in DOMAIN seq : seq[i] = e})
\* every log_event call of every producer has been made and has returned
AllReturned == \A p \in Producers : ppc[p] = "idle" /\ psent[p] = MaxEvents
\* the dispatcher thread can take no further step
DispatcherStopped == worker # "started"

\* C1: once all N log_event calls have returned and the dispatcher has nothing
\* left it can do, every sink holds each of the N events exactly once (no
\* flush() call is involved)
C1_NoLoss ==
    (AllReturned /\ DispatcherStopped /\ fcalls = 0)
        => \A s \in Healthy : \A e \in AllEvents : Count(written[s], e) = 1

\* C2: in every sink the events of one execution_id appear in the order of
\* their log_event calls
C2_PerExecutionOrder ==
    \A s \in SinkIds : \A i, j \in DOMAIN written[s] :
        (i < j /\ written[s][i].execution_id = written[s][j].execution_id)
            => written[s][i].seq < written[s][j].seq

\* C3: a log_event call made while the queue is full is not dropped and does
\* not wait: it turns to the synchronous write at once, its steps leave the
\* queue unchanged, and when it returns the event is in every sink
C3_BackpressureStep ==
    [][\A p \in Producers :
        /\ (ppc[p] = "idle" /\ psent'[p] = psent[p] + 1 /\ enable_async
                /\ Len(event_queue) = QueueMaxSize)
            => (ppc'[p] = "sync" /\ event_queue' = event_queue
                /\ \A s \in SinkIds : written'[s] = written[s])
        /\ (ppc[p] = "sync" /\ (ppc'[p] # "sync" \/ psink'[p] # psink[p]))
            => event_queue' = event_queue
        /\ (ppc[p] = "sync" /\ ppc'[p] # "sync")
            => (ppc'[p] = "idle"
                /\ \A s \in Healthy : Count(written'[s], Event(p, psent[p])) = 1)
      ]_vars

\* a producer has returned from a log_event call that found the queue full, all
\* sinks working, the queue still full
C3_Witness ==
    /\ failing = {}
    /\ Len(event_queue) = QueueMaxSize
    /\ \E p \in Producers :
        /\ ppc[p] = "idle"
        /\ Event(p, psent[p]) \in fellBack \cap handled
        /\ \A s \in SinkIds : Count(written[s], Event(p, psent[p])) = 1

\* every event a _write_sync or _flush_batch pass has finished is in every
\* working sink once, and no caller saw a sink's fault
SinkIsolation ==
    /\ \A p \in Producers : ppc[p] # "raised"
    /\ fpc # "raised"
    /\ \A e \in handled : \A s \in Healthy : Count(written[s], e) = 1

\* C4: with a sink that always raises, the other sinks receive every event on
\* both paths, log_event never raises, and the dispatcher keeps processing:
\* events waiting in the queue still have a live dispatcher
C4_SinkIsolation ==
    /\ SinkIsolation
    /\ (failing # {} /\ event_queue # <<>>) => worker # "dead"

\* C21: after shutdown() has returned, a log_event call adds no event to the
\* queue
C21_ShutdownStopsAccepting ==
    [][shut = "returned" => Len(event_queue') <= Len(event_queue)]_vars

\* the step on which a flush() execution returns
FlushReturns == fpc = "sinks" /\ fpc' = "idle"

\* C22: when flush() returns, every event submitted before the call is once
\* in every working sink and not in the queue, each sink's flush has been
\* invoked (the return follows the loop over the sinks), and the queue is empty
\* if no log_event call returned during the flush
C22_FlushDrains ==
    [][FlushReturns =>
        /\ \A e \in accepted :
            /\ \A s \in Healthy : Count(written'[s], e) = 1
            /\ \A i \in DOMAIN event_queue' : event_queue'[i] # e
        /\ Accepted = accepted => event_queue' = <<>>
      ]_vars

\* a flush() call made with two events queued has taken them into its batch
\* and written the last of them to the last sink, nothing submitted meanwhile
C22_Witness ==
    /\ fpc = "sinks"
    /\ shut = "no"
    /\ failing = {}
    /\ Len(fbatch) = QueueMaxSize
    /\ Accepted = accepted
    /\ event_queue = <<>>
    /\ \A i \in DOMAIN fbatch :
        fbatch[i] \in accepted /\ \A s \in SinkIds : Count(written[s], fbatch[i]) = 1

\* a step of the controlling thread inside flush() or shutdown()
ControlStep == fpc' # fpc \/ shut' # shut

\* an earlier flush() or shutdown() has returned and nothing was submitted
\* since: nothing is queued or held in a batch
Repeated ==
    /\ fcalls > 1 \/ (fcalls = 1 /\ fpc = "idle")
    /\ event_queue = <<>>
    /\ fbatch = <<>>

\* C23: a flush() or shutdown() call repeated with no submission in between
\* writes nothing to any sink, raises nothing, and leaves the queue, the
\* dispatcher and (for shutdown() after shutdown()) _running as they were
C23_Idempotent ==
    [][(Repeated /\ ControlStep) =>
        /\ written' = written
        /\ event_queue' = event_queue
        /\ worker' = worker
        /\ fpc' # "raised"
        /\ shut = "returned" => running' = running
      ]_vars

\* flush() has returned twice, shutdown() never called, and the sinks hold
\* the events
C23_Witness ==
    /\ fcalls = MaxFlushCalls + MaxRepeats
    /\ fpc = "idle"
    /\ shut = "no"
    /\ enable_async
    /\ event_queue = <<>>
    /\ \A s \in Healthy : \A e \in AllEvents : Count(written[s], e) = 1
    /\ Healthy # {}

\* ================================================================ stage graph
\* AgentExecutor.__init__ reads config.enable_logging, a field ExecutionConfig
\* does not declare: the runs modelled here are those of an executor whose
\* config object carries that attribute (with a plain ExecutionConfig the
\* constructor raises AttributeError and there is no run).
\* State.max_retries default
DefaultMaxRetries == 2
\* ExecutionConfig.max_steps default
DefaultMaxSteps == 20
\* a small max_steps a caller may configure
SmallMaxSteps == 3
\* the recursion limit LangGraph applies when the config's top level names
\* none; _build_graph_config puts recursion_limit under "configurable", where
\* LangGraph does not read it
RecursionLimit == 25

Intents == {"qa", "task", "analysis"}
\* a plan is a non-empty list of steps; "retrieval" stands for a plan one of
\* whose steps mentions retrieval, "plain" for one with no such step
Plans == {"plain", "retrieval"}

\* State(user_query=...) with the declared defaults
InitialState(maxRetries) ==
    [user_query |-> "q", intent |-> Null, plan |-> Null, need_retrieval |-> TRUE,
     retrieved_docs |-> Null, tool_calls |-> <<>>, observations |-> <<>>,
     draft_answer |-> Null, retries |-> 0, max_retries |-> maxRetries,
     final_answer |-> Null, memory |-> {}, critic_decision |-> Null,
     critic_reason |-> NoReason]

\* LangGraph writes the keys of a node's returned update to the channels; what
\* a node assigns to its own State instance is not written back
Merge(state, update) ==
    [f \in DOMAIN state |-> IF f \in DOMAIN update THEN update[f] ELSE state[f]]

Ok(update) == [fault |-> Null, update |-> update]
Raised(kind) == [fault |-> kind, update |-> <<>>]


\* _handle_retry that returns the incremented counter and has no failure branch
handle_retry_unbounded(state, reason) ==
    Ok([critic_decision |-> "retry", critic_reason |-> Reason(reason),
        final_answer |-> Null, retries |-> state.retries + 1])

\* _handle_retry whose retry update carries the reason as the answer
handle_retry_answers(state, reason) ==
    IF state.retries + 1 > state.max_retries
    THEN Raised("AttributeError")
    ELSE Ok([critic_decision |-> "retry", critic_reason |-> Reason(reason),
             final_answer |-> reason])

\* _handle_retry whose retry update also clears what the pass had gathered
handle_retry_resets(state, reason) ==
    IF state.retries + 1 > state.max_retries
    THEN Raised("AttributeError")
    ELSE Ok([critic_decision |-> "retry", critic_reason |-> Reason(reason),
             final_answer |-> Null, retrieved_docs |-> Null, tool_calls |-> <<>>])

\* CriticNode._handle_retry: state.retries += 1 on the node's own instance; past
\* max_retries the failure message reads state.trace_id, which State does not
\* declare, so the node raises AttributeError; else the retry update, which
\* has no retries key
handle_retry(state, reason) ==
    IF state.retries + 1 > state.max_retries
    THEN Raised("AttributeError")
    ELSE Ok([critic_decision |-> "retry", critic_reason |-> Reason(reason),
             final_answer |-> Null])

\* the plans the critic can be handed: those of Plans, and plans with a step
\* that mentions analysis ("分析") or a tool call ("调用" / "工具"), with or
\* without a retrieval step
HasRetrievalStep(plan) == plan \in {"retrieval", "analysis_retrieval", "tool_retrieval"}
HasAnalysisStep(plan) == plan \in {"analysis", "analysis_retrieval"}
HasToolStep(plan) == plan \in {"tool", "tool_retrieval"}

\* CriticNode._check_quality on a non-blank draft: the reason of the first
\* failing check, or "passed". A draft is "short" (under 10 characters),
\* "bare" (long, with none of the analysis or task keywords) or "draft" (long,
\* with the keyword of its intent's check, as DraftAnswerNode writes it).
check_quality(state) ==
    IF state.draft_answer = "short" THEN "too_short"
    ELSE IF state.intent = "analysis" /\ state.draft_answer = "bare"
            /\ HasAnalysisStep(state.plan)
    THEN "no_analysis"
    ELSE IF state.intent = "task" /\ state.draft_answer = "bare"
            /\ HasToolStep(state.plan) /\ state.tool_calls # <<>>
    THEN "no_task_status"
    ELSE IF HasRetrievalStep(state.plan) /\ state.retrieved_docs \in {Null, "empty"}
    THEN "no_docs"
    ELSE "passed"

\* CriticNode.run
CriticNode(state) ==
    IF state.draft_answer \in {Null, "blank"} THEN handle_retry(state, "empty")
    ELSE IF \E i \in DOMAIN state.tool_calls : ~state.tool_calls[i]
    THEN handle_retry(state, "tool_failed")
    ELSE IF check_quality(state) # "passed" THEN handle_retry(state, check_quality(state))
    ELSE Ok([critic_decision |-> "accept", critic_reason |-> Reason("all_passed"),
             final_answer |-> state.draft_answer])

\* route_after_critic: it tests for "reject", a decision the critic never
\* emits; "in reason" raises TypeError when critic_reason is None
route_after_critic(state) ==
    IF state.critic_decision = "accept" THEN "END"
    ELSE IF state.critic_decision = "reject"
    THEN IF state.critic_reason = NoReason THEN "TypeError"
         ELSE IF IsExceeded(state.critic_reason) THEN "END" ELSE "planner"
    ELSE "planner"

\* route_after_retrieval that sends every pass through the retrieval stage
route_always_retrieval(state) == "retrieval"

\* route_after_retrieval: getattr(state, "need_retrieval", True) on the State
\* the conditional edge is given
route_after_retrieval(state) ==
    IF state.need_retrieval = TRUE THEN "retrieval" ELSE "draft_answer"

Modes == {"execute", "execute_async", "stream", "graph"}

\* the initial_state argument of execute / execute_async: None, or the fields
\* of a State, of which the model keeps max_retries
InitialStates ==
    {[given |-> FALSE, max_retries |-> 0]}
        \cup {[given |-> TRUE, max_retries |-> m] : m \in 0..MaxRetriesBound}

\* _initialize_state builds a State from initial_state, and execute hands the
\* graph {"user_query": state.user_query}: the graph starts from the declared
\* defaults of State whatever initial_state holds
initialize_state(initial_state) == InitialState(DefaultMaxRetries)

\* LoggingService.log_event called by the executor (source="executor")
Logged(h, event_type) == [h EXCEPT !.events = Append(@, event_type)]

InitRun ==
    /\ mode \in Modes
    /\ max_steps \in {SmallMaxSteps, DefaultMaxSteps}
    /\ return_final_state \in BOOLEAN
    /\ \E m \in 0..MaxRetriesBound, is \in InitialStates :
        /\ mode # "graph" => m = DefaultMaxRetries
        /\ mode \notin {"execute", "execute_async"} => ~is.given
        /\ st = IF mode = "graph" THEN InitialState(m) ELSE initialize_state(is)
        /\ hist = IF mode = "graph"
                  THEN NoHistory
                  ELSE Logged([NoHistory EXCEPT !.initial_state = is],
                              "execution.started")
    /\ node = "intent_router"
    /\ inStage = FALSE
    /\ gstep = 0
    /\ gpass = 1
    /\ criticEvals = 0
    /\ fault = Null
    /\ xpc = "graph"
    /\ trace = [status |-> "success", ended |-> FALSE, termination_reason |-> Null,
                steps_count |-> 0, node_execution_order |-> <<>>]
    /\ result = NoResult
    /\ LogIdle
    /\ RouteIdle /\ PairIdle /\ ToolIdle /\ CriticIdle

GraphRunning == xpc = "graph" /\ fault = Null /\ node # "END"

\* the graph starts its next node
stage_start ==
    /\ GraphRunning
    /\ ~inStage
    /\ gstep < RecursionLimit
    /\ inStage' = TRUE
    /\ gstep' = gstep + 1
    /\ UNCHANGED <<mode, max_steps, return_final_state, st, node, gpass, criticEvals,
                   fault, xpc, trace, result>>
    /\ UNCHANGED <<hist, logVars, harnessVars>>

\* the graph has run RecursionLimit steps without reaching END
recursion_limit ==
    /\ GraphRunning
    /\ ~inStage
    /\ gstep >= RecursionLimit
    /\ fault' = "GraphRecursionError"
    /\ UNCHANGED <<mode, max_steps, return_final_state, st, node, inStage, gstep, gpass,
                   criticEvals, xpc, trace, result>>
    /\ UNCHANGED <<hist, logVars, harnessVars>>

\* the history after a stage has returned: in stream(), astream hands the
\* node's update to the loop body, which yields one 'node_execution' element;
\* the stages of graph.ainvoke run without a yield
StageDone(h) ==
    [h EXCEPT !.completed = @ + 1,
              !.yielded = IF mode = "stream" /\ gpass = 1 THEN @ + 1 ELSE @]

\* a node returns `update` and the graph moves to `next`
Returns(update, next) ==
    /\ st' = Merge(st, update)
    /\ node' = next
    /\ inStage' = FALSE
    /\ UNCHANGED <<mode, max_steps, return_final_state, gstep, gpass, fault, xpc, trace,
                   result>>

\* IntentRouterNode.run: an intent (qa when the model call faults or answers
\* outside ALLOWED_INTENTS); a blank answer makes intent_text.split()[0], which
\* is outside the try, raise IndexError
intent_router ==
    /\ GraphRunning /\ inStage /\ node = "intent_router"
    /\ \/ /\ \E i \in Intents : Returns([intent |-> i], "planner")
          /\ hist' = StageDone(hist)
       \/ /\ fault' = "IndexError"
          /\ inStage' = FALSE
          /\ UNCHANGED <<mode, max_steps, return_final_state, st, node, gstep, gpass,
                         xpc, trace, result, hist>>
    /\ UNCHANGED criticEvals
    /\ UNCHANGED <<logVars, harnessVars>>

\* PlannerNode.run: the update has the key plan alone, on the model's answer
\* and on the two fallbacks; the fallbacks' state.memory["planner_error"] is
\* set on the node's own State instance and is in no update
planner ==
    /\ GraphRunning /\ inStage /\ node = "planner"
    /\ \E pl \in Plans : Returns([plan |-> pl], "retrieval_decision")
    /\ hist' = StageDone(hist)
    /\ UNCHANGED criticEvals
    /\ UNCHANGED <<logVars, harnessVars>>

\* RetrievalDecisionNode.run, then route_after_retrieval
retrieval_decision ==
    /\ GraphRunning /\ inStage /\ node = "retrieval_decision"
    /\ \E b \in BOOLEAN :
        Returns([need_retrieval |-> b],
                route_after_retrieval(Merge(st, [need_retrieval |-> b])))
    /\ hist' = StageDone(hist)
    /\ UNCHANGED criticEvals
    /\ UNCHANGED <<logVars, harnessVars>>

\* RetrievalNode.run
retrieval ==
    /\ GraphRunning /\ inStage /\ node = "retrieval"
    /\ IF st.need_retrieval = FALSE
       THEN Returns([retrieved_docs |-> "empty"], "draft_answer")
       ELSE \E d \in {"docs", "empty"} : Returns([retrieved_docs |-> d], "draft_answer")
    /\ hist' = [StageDone(hist) EXCEPT !.retrieval_ran = TRUE]
    /\ UNCHANGED criticEvals
    /\ UNCHANGED <<logVars, harnessVars>>

\* DraftAnswerNode.run: it returns the State it was given with draft_answer set
draft_answer ==
    /\ GraphRunning /\ inStage /\ node = "draft_answer"
    /\ Returns([draft_answer |-> "draft"], "critic")
    /\ hist' = StageDone(hist)
    /\ UNCHANGED criticEvals
    /\ UNCHANGED <<logVars, harnessVars>>

\* CriticNode.run, then route_after_critic
critic ==
    /\ GraphRunning /\ inStage /\ node = "critic"
    /\ criticEvals' = criticEvals + 1
    /\ LET r == CriticNode(st)
           next == route_after_critic(Merge(st, r.update)) IN
        IF r.fault # Null
        THEN /\ fault' = r.fault
             /\ inStage' = FALSE
             /\ UNCHANGED <<mode, max_steps, return_final_state, st, node, gstep, gpass,
                            xpc, trace, result, hist>>
        ELSE IF next = "TypeError"
        THEN /\ fault' = "TypeError"
             /\ inStage' = FALSE
             /\ st' = Merge(st, r.update)
             /\ UNCHANGED <<mode, max_steps, return_final_state, node, gstep, gpass,
                            xpc, trace, result, hist>>
        ELSE Returns(r.update, next) /\ hist' = StageDone(hist)
    /\ UNCHANGED <<logVars, harnessVars>>

\* what graph.invoke / graph.ainvoke return for a pydantic state schema: a
\* dict of the channels, not a State
invoke_output(state) == [type |-> "dict", items |-> state]

\* hasattr / getattr on the final state: a dict has keys, not attributes
hasattr(obj, name) == obj.type = "State"
getattr(obj, name, default) == IF hasattr(obj, name) THEN obj.items[name] ELSE default

\* str(error) of the faults that can leave the graph
MessageOf(kind) ==
    CASE kind = "IndexError" -> "list index out of range"
      [] kind = "AttributeError" -> "object has no attribute"
      [] kind = "TypeError" -> "argument of type 'NoneType' is not iterable"
      [] kind = "GraphRecursionError" -> "Recursion limit of 25 reached"
      [] OTHER -> ""

\* f"执行超时: {self.config.max_execution_time}秒"
TimeoutMessage == "timeout: max_execution_time seconds"

\* _build_result: the business fields by getattr / hasattr, the status from
\* trace.termination_reason, and state.model_dump() when return_final_state
build_result(state) ==
    LET answer == getattr(state, "final_answer", Null)
        retries == getattr(state, "retries", 0)
        triggered_rag == hasattr(state, "retrieved_docs")
                            /\ state.items.retrieved_docs \notin {Null, "empty"}
        status == IF trace.termination_reason # Null THEN "terminated" ELSE "success"
    IN  IF return_final_state /\ state.type # "State"
        THEN Raised("AttributeError")
        ELSE Ok([BlankResult EXCEPT !.status = status,
                                    !.termination_reason = trace.termination_reason,
                                    !.steps_count = trace.steps_count,
                                    !.answer = answer,
                                    !.triggered_rag = triggered_rag,
                                    !.retries_count = retries])

\* the Result of _handle_execution_error that carries only the status
error_result_bare(kind) ==
    [BlankResult EXCEPT !.status = IF kind = "TimeoutError" THEN "timeout" ELSE "failed"]

\* the Result _handle_execution_error returns for the exception `kind`
error_result(kind) ==
    [BlankResult EXCEPT !.status = IF kind = "TimeoutError" THEN "timeout" ELSE "failed",
                        !.termination_reason = MessageOf(kind),
                        !.error_message = MessageOf(kind),
                        !.error_type = kind]

\* execute / execute_async after the graph reached END: the trace is closed as
\* SUCCESS and execution.completed is logged, then _build_result; its fault
\* goes to _handle_execution_error, which logs the exception
execute_finish ==
    /\ xpc = "graph" /\ mode \in {"execute", "execute_async"}
    /\ fault = Null /\ node = "END" /\ ~inStage
    /\ xpc' = "done"
    /\ LET r == build_result(invoke_output(st)) IN
        IF r.fault # Null
        THEN /\ trace' = [trace EXCEPT !.ended = TRUE, !.status = "failed"]
             /\ fault' = r.fault
             /\ result' = error_result(r.fault)
             /\ hist' = Logged(Logged(hist, "execution.completed"), "exception.raised")
        ELSE /\ trace' = [trace EXCEPT !.ended = TRUE, !.status = "success"]
             /\ result' = r.update
             /\ hist' = Logged(hist, "execution.completed")
             /\ UNCHANGED fault
    /\ UNCHANGED <<mode, max_steps, return_final_state, st, node, inStage, gstep, gpass,
                   criticEvals>>
    /\ UNCHANGED <<logVars, harnessVars>>

\* _handle_execution_error: a fault left the graph
handle_execution_error ==
    /\ xpc = "graph" /\ mode \in {"execute", "execute_async"}
    /\ fault # Null
    /\ xpc' = "done"
    /\ trace' = [trace EXCEPT !.ended = TRUE, !.status = "failed"]
    /\ result' = error_result(fault)
    /\ hist' = Logged(hist, "exception.raised")
    /\ UNCHANGED <<mode, max_steps, return_final_state, st, node, inStage, gstep, gpass,
                   criticEvals, fault>>
    /\ UNCHANGED <<logVars, harnessVars>>

\* max_execution_time elapses while the graph executes: the alarm handler
\* (execute) raises TimeoutError in whatever the thread is running, wait_for
\* (execute_async) cancels the call; _handle_timeout emits termination.timeout
\* and builds the Result
handle_timeout ==
    /\ GraphRunning /\ mode \in {"execute", "execute_async"}
    /\ fault' = "TimeoutError"
    /\ inStage' = FALSE
    /\ xpc' = "done"
    /\ trace' = [trace EXCEPT !.ended = TRUE, !.status = "timeout",
                              !.termination_reason = TimeoutMessage]
    /\ hist' = Logged([hist EXCEPT !.expired = TRUE, !.timeout_event = TRUE],
                      "termination.timeout")
    /\ result' = [BlankResult EXCEPT !.status = "timeout",
                                     !.termination_reason = TimeoutMessage,
                                     !.error_message = TimeoutMessage,
                                     !.error_type = "TimeoutError"]
    /\ UNCHANGED <<mode, max_steps, return_final_state, st, node, gstep, gpass,
                   criticEvals>>
    /\ UNCHANGED <<logVars, harnessVars>>

\* max_execution_time elapses during stream(): stream() sets no alarm and no
\* wait_for, and nothing reads the clock
stream_deadline ==
    /\ xpc = "graph" /\ mode = "stream"
    /\ ~hist.expired
    /\ hist' = [hist EXCEPT !.expired = TRUE]
    /\ UNCHANGED <<mode, max_steps, return_final_state, st, node, inStage, gstep, gpass,
                   criticEvals, fault, xpc, trace, result>>
    /\ UNCHANGED <<logVars, harnessVars>>

\* the consumer takes the 'node_execution' element of a stage and then stops
\* iterating, while a step asks for the next element
stream_stop_eager ==
    /\ xpc = "graph" /\ mode = "stream" /\ gpass = 1
    /\ fault = Null /\ ~inStage /\ gstep > 0
    /\ ~hist.stopped
    /\ hist' = [hist EXCEPT !.stopped = TRUE]
    /\ UNCHANGED <<mode, max_steps, return_final_state, st, node, inStage, gstep, gpass,
                   criticEvals, fault, xpc, trace, result>>
    /\ UNCHANGED <<logVars, harnessVars>>

\* the consumer takes the 'node_execution' element of a stage and then stops
\* iterating: the generator stays suspended at its yield (or is closed there),
\* and astream, which runs a node only when asked for its next item, is not
\* resumed
stream_stop ==
    /\ xpc = "graph" /\ mode = "stream" /\ gpass = 1
    /\ fault = Null /\ ~inStage /\ gstep > 0
    /\ ~hist.stopped
    /\ hist' = [hist EXCEPT !.stopped = TRUE]
    /\ xpc' = "done"
    /\ UNCHANGED <<mode, max_steps, return_final_state, st, node, inStage, gstep, gpass,
                   criticEvals, fault, trace, result>>
    /\ UNCHANGED <<logVars, harnessVars>>

\* stream(): astream is exhausted, and graph.ainvoke runs the graph again from
\* the user query
stream_rerun ==
    /\ xpc = "graph" /\ mode = "stream" /\ gpass = 1
    /\ fault = Null /\ node = "END" /\ ~inStage
    /\ gpass' = 2
    /\ st' = InitialState(DefaultMaxRetries)
    /\ node' = "intent_router"
    /\ gstep' = 0
    /\ criticEvals' = 0
    /\ hist' = [hist EXCEPT !.retrieval_ran = FALSE]
    /\ UNCHANGED <<mode, max_steps, return_final_state, inStage, fault, xpc, trace, result>>
    /\ UNCHANGED <<logVars, harnessVars>>

\* stream(): the second execution reached END; the "final" element is yielded
stream_final ==
    /\ xpc = "graph" /\ mode = "stream" /\ gpass = 2
    /\ fault = Null /\ node = "END" /\ ~inStage
    /\ xpc' = "done"
    /\ result' = [BlankResult EXCEPT !.kind = "final", !.status = "success",
                                     !.answer = getattr(invoke_output(st), "final_answer", Null)]
    /\ hist' = Logged(hist, "execution.completed")
    /\ UNCHANGED <<mode, max_steps, return_final_state, st, node, inStage, gstep, gpass,
                   criticEvals, fault, trace>>
    /\ UNCHANGED <<logVars, harnessVars>>

\* stream(): a fault in either execution; the "error" element is yielded
stream_error ==
    /\ xpc = "graph" /\ mode = "stream"
    /\ fault # Null
    /\ xpc' = "done"
    /\ result' = [BlankResult EXCEPT !.kind = "error", !.error_message = MessageOf(fault),
                                     !.error_type = fault]
    /\ hist' = Logged(hist, "exception.raised")
    /\ UNCHANGED <<mode, max_steps, return_final_state, st, node, inStage, gstep, gpass,
                   criticEvals, fault, trace>>
    /\ UNCHANGED <<logVars, harnessVars>>

\* graph.invoke called directly: it returns the final state or raises
graph_invoke_ends ==
    /\ xpc = "graph" /\ mode = "graph"
    /\ ~inStage
    /\ fault # Null \/ node = "END"
    /\ xpc' = "done"
    /\ result' = [BlankResult EXCEPT !.kind = IF fault # Null THEN "raised" ELSE "state"]
    /\ UNCHANGED <<mode, max_steps, return_final_state, st, node, inStage, gstep, gpass,
                   criticEvals, fault, trace>>
    /\ UNCHANGED <<hist, logVars, harnessVars>>

NextRun ==
    \/ stage_start
    \/ recursion_limit
    \/ intent_router
    \/ planner
    \/ retrieval_decision
    \/ retrieval
    \/ draft_answer
    \/ critic
    \/ execute_finish
    \/ handle_execution_error
    \/ handle_timeout
    \/ stream_deadline
    \/ stream_stop
    \/ stream_rerun
    \/ stream_final
    \/ stream_error
    \/ graph_invoke_ends

SpecRun == InitRun /\ [][NextRun]_vars

\* ------------------------------------------------- route_after_critic alone
Decisions == {Null, "accept", "retry", "fail", "reject", "other"}
Reasons == {NoReason, Reason("no_docs"), Exceeded("no_docs")}

\* a State as the critic's contract describes it after the critic stage:
\* 'fail' exactly when retries has passed max_retries, with the exceeded reason
InitRoute ==
    /\ \E d \in Decisions, r \in Reasons, n \in 0..(MaxRetriesBound + 1),
          m \in 0..MaxRetriesBound :
        /\ (d = "fail") <=> (n > m)
        /\ d = "fail" => IsExceeded(r)
        /\ d \in {"accept", "retry"} => (r # NoReason /\ ~IsExceeded(r))
        /\ routeIn = [critic_decision |-> d, critic_reason |-> r, retries |-> n,
                      max_retries |-> m]
    /\ routeOut = "unset"
    /\ LogIdle
    /\ RunIdle
    /\ PairIdle /\ ToolIdle /\ CriticIdle

\* the conditional edge after the critic calls route_after_critic
route_apply ==
    /\ routeOut = "unset"
    /\ routeOut' = route_after_critic(routeIn)
    /\ UNCHANGED <<routeIn, logVars, runVars, pairVars, toolVars, criticVars>>

NextRoute == route_apply

SpecRoute == InitRoute /\ [][NextRoute]_vars

\* ================================================ two overlapping execute()
\* r1 is called on the main thread. r2 is called while r1 may be running:
\* on a second thread ("threads"), or on the main thread by a stage of r1
\* ("nested"). Both executors have return_final_state off (see build_result).
Runs == {"r1", "r2"}
Placements == {"threads", "nested"}
\* stages the graph of a run executes before it returns
MaxPairSteps == 4

InitPair ==
    /\ placement \in Placements
    /\ rpc = [r \in Runs |-> "idle"]
    /\ rstatus = [r \in Runs |-> Null]
    /\ rover = [r \in Runs |-> FALSE]
    /\ rsteps = [r \in Runs |-> 0]
    /\ alarm = "off"
    /\ LogIdle
    /\ RunIdle
    /\ RouteIdle /\ ToolIdle /\ CriticIdle

\* the thread that runs r is the main thread of the main interpreter
OnMain(r) == r = "r1" \/ placement = "nested"

\* r1 waits inside a stage for the execute() call that stage made
Waiting(r) == placement = "nested" /\ r = "r1" /\ rpc["r2"] = "graph"

\* execute() up to graph.invoke: _execute_with_timeout calls signal.signal,
\* which raises ValueError off the main thread (the call ends in
\* _handle_execution_error), then signal.alarm, which replaces the timer
pair_start(r) ==
    /\ rpc[r] = "idle"
    /\ (r = "r2" /\ placement = "nested") => rpc["r1"] = "graph"
    /\ IF OnMain(r)
       THEN /\ alarm' = r
            /\ rpc' = [rpc EXCEPT ![r] = "graph"]
            /\ UNCHANGED rstatus
       ELSE /\ rpc' = [rpc EXCEPT ![r] = "done"]
            /\ rstatus' = [rstatus EXCEPT ![r] = "failed"]
            /\ UNCHANGED alarm
    /\ UNCHANGED <<placement, rover, rsteps>>
    /\ UNCHANGED <<logVars, runVars, routeVars, toolVars, criticVars>>

\* a stage of r's graph completes
pair_stage(r) ==
    /\ rpc[r] = "graph"
    /\ ~Waiting(r)
    /\ rsteps[r] < MaxPairSteps
    /\ rsteps' = [rsteps EXCEPT ![r] = @ + 1]
    /\ UNCHANGED <<placement, rpc, rstatus, rover, alarm>>
    /\ UNCHANGED <<logVars, runVars, routeVars, toolVars, criticVars>>

\* graph.invoke returns: finally signal.alarm(0), then the SUCCESS Result
pair_finish(r) ==
    /\ rpc[r] = "graph"
    /\ ~Waiting(r)
    /\ rsteps[r] = MaxPairSteps
    /\ alarm' = "off"
    /\ rpc' = [rpc EXCEPT ![r] = "done"]
    /\ rstatus' = [rstatus EXCEPT ![r] = "success"]
    /\ UNCHANGED <<placement, rover, rsteps>>
    /\ UNCHANGED <<logVars, runVars, routeVars, toolVars, criticVars>>

\* max_execution_time of r elapses while r runs. If the timer is the one r
\* armed it fires now: the handler raises TimeoutError in the main thread,
\* which is inside r's graph.invoke; finally signal.alarm(0), _handle_timeout
pair_deadline(r) ==
    /\ rpc[r] = "graph"
    /\ ~rover[r]
    /\ rover' = [rover EXCEPT ![r] = TRUE]
    /\ IF alarm = r
       THEN /\ alarm' = "off"
            /\ rpc' = [rpc EXCEPT ![r] = "done"]
            /\ rstatus' = [rstatus EXCEPT ![r] = "timeout"]
       ELSE UNCHANGED <<alarm, rpc, rstatus>>
    /\ UNCHANGED <<placement, rsteps>>
    /\ UNCHANGED <<logVars, runVars, routeVars, toolVars, criticVars>>

NextPair ==
    \/ \E r \in Runs : pair_start(r)
    \/ \E r \in Runs : pair_stage(r)
    \/ \E r \in Runs : pair_finish(r)
    \/ \E r \in Runs : pair_deadline(r)

SpecPair == InitPair /\ [][NextPair]_vars

\* ======================================================= tool registry, stage
ToolNames == {"get_weather", "send_email"}
\* the params argument of execute: None, a dict the tool's input model
\* rejects, a dict it accepts
ParamKinds == {Null, "bad", "good"}
\* a plan step: without a tool keyword; with a keyword and no tool name in it;
\* or with a keyword and the name of a tool
StepKinds == {"plain", "vague"} \cup ToolNames
\* steps of the plan handed to ToolExecution.run
MaxPlanSteps == 2
\* calls of execute / run made on one State
MaxToolOps == 2

\* ToolObservation, ToolCall
ToolObservation(tool, args, value, success, error) ==
    [tool |-> tool, args |-> args, result |-> value, success |-> success, error |-> error]
ToolCall(name, input_params, output, success, error) ==
    [name |-> name, input_params |-> input_params, output |-> output,
     success |-> success, error |-> error]

\* the tool_calls a State can hold from earlier stages
PriorCalls ==
    {<<>>, <<ToolCall("get_weather", "good", "result", TRUE, Null)>>,
     <<ToolCall("send_email", "good", Null, FALSE, "Exception")>>}

\* the plans of at most MaxPlanSteps steps; <<>> stands for None and for []
PlansOfSteps == UNION {[1..n -> StepKinds] : n \in 0..MaxPlanSteps}

\* no call made yet
NoCall == [op |-> Null, fault |-> Null, result |-> Null, tool_calls |-> <<>>]

InitTool ==
    /\ tools \in SUBSET ToolNames
    /\ \E pl \in PlansOfSteps, calls \in PriorCalls :
        tstate = [plan |-> pl, tool_calls |-> calls, observations |-> <<>>]
    /\ tout = NoCall
    /\ tops = 0
    /\ LogIdle
    /\ RunIdle
    /\ RouteIdle /\ PairIdle /\ CriticIdle

\* ToolRegistry.execute(name, state, params) on a registry holding `registry`,
\* where the tool's function raises iff `faulty`: the exception it raises or
\* Null, the result, and state.observations afterwards
execute(registry, name, observations, params, faulty) ==
    IF name \notin registry
    THEN [fault |-> "ValueError", result |-> Null, observations |-> observations]
    ELSE IF params = Null
    THEN [fault |-> "TypeError", result |-> Null, observations |-> observations]
    ELSE IF params = "bad"
    THEN [fault |-> "ValueError", result |-> Null,
          observations |->
            Append(observations, ToolObservation(name, params, Null, FALSE, "ValidationError"))]
    ELSE IF ~faulty
    THEN [fault |-> Null, result |-> "result",
          observations |->
            Append(observations, ToolObservation(name, params, "result", TRUE, Null))]
    ELSE [fault |-> "Exception", result |-> Null,
          observations |->
            Append(observations, ToolObservation(name, params, Null, FALSE, "Exception"))]

\* ToolExecution._extract_tool_name: the tool a step with a keyword names
extract_tool_name(step) == IF step \in ToolNames THEN step ELSE Null

\* ToolExecution._extract_params: it fills a local dict and has no return
\* statement
extract_params(step, tool_name) == Null

\* ToolExecution._extract_tool_calls
extract_tool_calls(plan) ==
    LET named == SelectSeq(plan, LAMBDA step : step # "plain" /\ extract_tool_name(step) # Null)
    IN  [i \in DOMAIN named |->
            [tool_name |-> extract_tool_name(named[i]),
             params |-> extract_params(named[i], extract_tool_name(named[i])),
             step |-> named[i]]]

\* ToolExecution._execute_tool: it reads tool_call_info["step_text"] and builds
\* ToolCall(input_params=params) before its try; inside the try every fault of
\* execute becomes a failed ToolCall
execute_tool(tool_call_info, registry, observations, faulty) ==
    IF "step_text" \notin DOMAIN tool_call_info
    THEN [fault |-> "KeyError", call |-> Null, observations |-> observations]
    ELSE IF tool_call_info.params = Null
    THEN [fault |-> "ValidationError", call |-> Null, observations |-> observations]
    ELSE LET r == execute(registry, tool_call_info.tool_name, observations,
                          tool_call_info.params, faulty)
         IN  [fault |-> Null,
              call |-> ToolCall(tool_call_info.tool_name, tool_call_info.params, r.result,
                                r.fault = Null, r.fault),
              observations |-> r.observations]

\* the loop of ToolExecution.run over the extracted calls
RECURSIVE execute_all(_, _, _, _)
execute_all(infos, registry, observations, faulty) ==
    IF infos = <<>>
    THEN [fault |-> Null, calls |-> <<>>, observations |-> observations]
    ELSE LET r == execute_tool(Head(infos), registry, observations, faulty) IN
         IF r.fault # Null
         THEN [fault |-> r.fault, calls |-> <<>>, observations |-> r.observations]
         ELSE LET rest == execute_all(Tail(infos), registry, r.observations, faulty) IN
              [fault |-> rest.fault,
               calls |-> IF rest.fault = Null THEN <<r.call>> \o rest.calls ELSE <<>>,
               observations |-> rest.observations]

\* ToolExecution.run: {"tool_calls": []} without a plan or an extracted call;
\* else the state's tool_calls followed by the executed calls whose name is new
run(state, registry, faulty) ==
    IF state.plan = <<>>
    THEN [fault |-> Null, tool_calls |-> <<>>, observations |-> state.observations]
    ELSE LET tool_calls_to_execute == extract_tool_calls(state.plan) IN
         IF tool_calls_to_execute = <<>>
         THEN [fault |-> Null, tool_calls |-> <<>>, observations |-> state.observations]
         ELSE LET r == execute_all(tool_calls_to_execute, registry, state.observations, faulty)
                  existing == {state.tool_calls[i].name : i \in DOMAIN state.tool_calls}
              IN  [fault |-> r.fault,
                   tool_calls |->
                     IF r.fault # Null THEN <<>>
                     ELSE state.tool_calls
                            \o SelectSeq(r.calls, LAMBDA call : call.name \notin existing),
                   observations |-> r.observations]

\* a caller invokes tool_registry.execute(name, state, params)
tool_execute ==
    /\ tops < MaxToolOps
    /\ tops' = tops + 1
    /\ \E name \in ToolNames, params \in ParamKinds, faulty \in BOOLEAN :
        LET r == execute(tools, name, tstate.observations, params, faulty) IN
        /\ tstate' = [tstate EXCEPT !.observations = r.observations]
        /\ tout' = [op |-> "execute", fault |-> r.fault, result |-> r.result,
                    tool_calls |-> <<>>]
    /\ UNCHANGED tools
    /\ UNCHANGED <<logVars, runVars, routeVars, pairVars, criticVars>>

\* a caller invokes ToolExecution().run(state)
tool_execution_run ==
    /\ tops < MaxToolOps
    /\ tops' = tops + 1
    /\ \E faulty \in BOOLEAN :
        LET r == run(tstate, tools, faulty) IN
        /\ tstate' = [tstate EXCEPT !.observations = r.observations]
        /\ tout' = [op |-> "run", fault |-> r.fault, result |-> Null,
                    tool_calls |-> r.tool_calls]
    /\ UNCHANGED tools
    /\ UNCHANGED <<logVars, runVars, routeVars, pairVars, criticVars>>

NextTool ==
    \/ tool_execute
    \/ tool_execution_run

SpecTool == InitTool /\ [][NextTool]_vars

\* ========================================================== CriticNode alone
\* the plans and drafts the critic can be handed
CriticPlans ==
    {Null, "plain", "retrieval", "analysis", "analysis_retrieval", "tool", "tool_retrieval"}
Drafts == {Null, "blank", "short", "bare", "draft"}

InitCritic ==
    /\ \E i \in Intents, pl \in CriticPlans, d \in Drafts,
          docs \in {Null, "empty", "docs"}, calls \in {<<>>, <<TRUE>>, <<FALSE>>} :
        criticIn = [InitialState(DefaultMaxRetries) EXCEPT
                        !.intent = i, !.plan = pl, !.draft_answer = d,
                        !.retrieved_docs = docs, !.tool_calls = calls]
    /\ criticOut = Raised("unset")
    /\ LogIdle
    /\ RunIdle
    /\ RouteIdle /\ PairIdle /\ ToolIdle

\* the critic stage is run on the State
critic_apply ==
    /\ criticOut = Raised("unset")
    /\ criticOut' = CriticNode(criticIn)
    /\ UNCHANGED <<criticIn, logVars, runVars, routeVars, pairVars, toolVars>>

NextCritic == critic_apply

SpecCritic == InitCritic /\ [][NextCritic]_vars

\* ------------------------------------------------------ graph properties
\* C5: after the critic the graph goes to END whenever the decision is 'fail',
\* and it goes to the planner only on 'retry' or an unrecognized decision with
\* retries <= max_retries
C5_CriticRouting ==
    routeOut # "unset" =>
        /\ routeIn.critic_decision = "fail" => routeOut = "END"
        /\ routeOut = "planner" =>
            (routeIn.critic_decision \notin {"accept", "fail"}
             /\ routeIn.retries <= routeIn.max_retries)

\* C6: a graph execution evaluates the critic at most max_retries + 1 times and
\* does not run into the recursion limit
C6_BoundedLoop ==
    /\ criticEvals <= st.max_retries + 1
    /\ fault # "GraphRecursionError"

\* C7: retries never decreases, is at most max_retries while no accept/fail
\* decision stands, and so in every state whose decision is 'retry'
C7_RetryLedger ==
    /\ [](st.critic_decision \notin {"accept", "fail"} => st.retries <= st.max_retries)
    /\ [][st'.retries >= st.retries]_vars

\* the critic has sent the run back to the planner at least twice
C7_Witness ==
    /\ st.critic_decision = "retry"
    /\ criticEvals >= 2
    /\ node = "critic" /\ inStage
    /\ st.retries <= st.max_retries

\* C8: final_answer is non-null exactly when critic_decision is accept or fail
C8_FinalAnswerIff ==
    (st.final_answer # Null) <=> (st.critic_decision \in {"accept", "fail"})

\* the critic accepted a draft after having rejected an earlier one
C8_Witness ==
    /\ st.critic_decision = "accept"
    /\ st.final_answer = st.draft_answer
    /\ st.final_answer # Null
    /\ criticEvals >= 2

\* the graph of this run has reached END, timed out or faulted
RunTerminal == gpass > 1 \/ node = "END" \/ fault # Null \/ xpc = "done"

\* C9: once the run is terminal no further stage starts
C9_TerminalAbsorbing == [][RunTerminal => ~(~inStage /\ inStage')]_vars

\* C10: a graph execution starts at most max_steps stages, and the Result's
\* steps_count is at most max_steps
C10_StepBudget ==
    /\ gstep <= max_steps
    /\ result # NoResult => result.steps_count <= max_steps

\* --------------------------------------------------- governor properties
\* execute or execute_async has returned
Returned == mode \in {"execute", "execute_async"} /\ xpc = "done"

\* the drafts the critic has rejected in the current graph execution
Rejections == IF st.critic_decision = "accept" THEN criticEvals - 1 ELSE criticEvals

\* the critic's checks reject the draft of `state`
Rejected(state) ==
    \/ state.draft_answer \in {Null, "blank"}
    \/ \E i \in DOMAIN state.tool_calls : ~state.tool_calls[i]
    \/ check_quality(state) # "passed"

\* C11: a run whose critic rejected the first k <= max_retries drafts and then
\* accepted returns a Result with status SUCCESS, retries_count k and the
\* accepted draft as its answer
C11_BoundedRecovery ==
    (Returned /\ node = "END" /\ st.critic_decision = "accept"
        /\ Rejections <= st.max_retries)
        => (result.status = "success"
            /\ result.retries_count = Rejections
            /\ result.answer = st.draft_answer)

\* C12: a run whose critic rejected max_retries + 1 drafts returns a Result
\* with status FAILED
C12_ExhaustionStatus ==
    (Returned /\ fault # "TimeoutError" /\ Rejections >= st.max_retries + 1)
        => result.status = "failed"

\* C13: a critic stage whose rejection takes retries past max_retries returns,
\* without a fault, the decision 'fail' and a final_answer
C13_ExhaustionMessage ==
    [][(node = "critic" /\ inStage /\ ~inStage' /\ fault' # "TimeoutError"
            /\ Rejected(st) /\ st.retries + 1 > st.max_retries)
        => (fault' = Null /\ st'.critic_decision = "fail" /\ st'.final_answer # Null)
      ]_vars

\* C14: a retrieval_decision stage that leaves need_retrieval false hands over
\* to draft_answer without a fault and without the retrieval stage running;
\* while the retrieval stage has not run, retrieved_docs is empty and a Result
\* has triggered_rag false
C14_RetrievalSkip ==
    /\ [][(node = "retrieval_decision" /\ inStage /\ ~inStage'
                /\ fault' # "TimeoutError" /\ st'.need_retrieval = FALSE)
            => (node' = "draft_answer" /\ fault' = Null
                /\ hist'.retrieval_ran = hist.retrieval_ran)
         ]_vars
    /\ [](~hist.retrieval_ran =>
            (st.retrieved_docs \in {Null, "empty"}
             /\ (result.kind = "result" => ~result.triggered_rag)))

\* a run that skipped retrieval on its only pass has returned SUCCESS
C14_Witness ==
    /\ Returned /\ node = "END"
    /\ st.need_retrieval = FALSE /\ ~hist.retrieval_ran
    /\ st.retrieved_docs = Null
    /\ result.status = "success" /\ ~result.triggered_rag

\* C15: once max_execution_time has elapsed during a run, in any mode, the run
\* is over (no stage can start), its Result has status TIMEOUT and a
\* termination_reason naming the budget, and termination.timeout was emitted
C15_TimeoutOutcome ==
    hist.expired =>
        /\ xpc = "done"
        /\ result.status = "timeout"
        /\ result.termination_reason = TimeoutMessage
        /\ hist.timeout_event

\* C16: a stage that has started ends by returning, never by the timeout
C16_CooperativeTimeout == [][(inStage /\ ~inStage') => fault' # "TimeoutError"]_vars

\* C17: execute and execute_async return a Result whatever fault left the
\* graph; for a fault other than the timeout its status is FAILED, its
\* termination_reason and error_message are the fault's message and its
\* error_type the fault's kind
C17_AlwaysAResult ==
    Returned =>
        /\ result.kind = "result"
        /\ fault \notin {Null, "TimeoutError"} =>
            /\ result.status = "failed"
            /\ result.termination_reason = MessageOf(fault)
            /\ result.error_message = MessageOf(fault)
            /\ result.error_type = fault
            /\ result.termination_reason # Null
            /\ result.error_message # Null
            /\ result.error_type # Null

\* a fault left the graph before END and the call returned
C17_Witness ==
    /\ Returned /\ node # "END"
    /\ fault \in {"IndexError", "GraphRecursionError"}
    /\ result.status = "failed" /\ result.error_type = fault

\* C18: a graph execution that reached END is not reported FAILED: building
\* the Result from its final state raises nothing
C18_DefensiveResult ==
    (Returned /\ node = "END") => (fault = Null /\ result.status # "failed")

\* C19: every stage ends by returning an update: no stage's fault leaves it
C19_NoStagePanics ==
    [][(inStage /\ ~inStage' /\ fault' # "TimeoutError") => fault' = Null]_vars

\* C20: when shutdown() has returned, every event accepted before it was
\* called is in every working sink once, and the dispatcher thread has ended
C20_ShutdownDrains ==
    shut = "returned" =>
        /\ worker # "started"
        /\ \A e \in accepted : \A s \in Healthy : Count(written[s], e) = 1

\* shutdown() has returned, all sinks working, and an event that had been
\* queued (not written by the fallback) when shutdown() was called is in every
\* sink
C20_Witness ==
    /\ shut = "returned" /\ enable_async /\ failing = {}
    /\ \E e \in accepted \ fellBack : \A s \in SinkIds : Count(written[s], e) = 1

\* ------------------------------------------------------ stream properties
\* C24: when stream() has ended (and the consumer took every element), it has
\* yielded one 'node_execution' element for each stage that returned in the
\* run, and then one terminal element
C24_StreamSequence ==
    (mode = "stream" /\ xpc = "done" /\ ~hist.stopped)
        => (hist.yielded = hist.completed /\ result.kind \in {"final", "error"})

\* C25: once the consumer of stream() has stopped iterating, no further stage
\* starts and the state the completed stages have written stays as it is
C25_StreamCancellation ==
    [][(hist.stopped \/ hist'.stopped)
        => (st' = st /\ gstep' = gstep /\ inStage' = inStage /\ node' = node)]_vars

\* the consumer stopped after the planner's element: the intent and the plan
\* are in the state, the later stages have not run and nothing more was yielded
C25_Witness ==
    /\ mode = "stream" /\ hist.stopped
    /\ node = "retrieval_decision" /\ ~inStage
    /\ st.intent # Null /\ st.plan # Null /\ st.draft_answer = Null
    /\ hist.yielded = 2 /\ hist.completed = 2
    /\ result = NoResult

\* C26: of two overlapping execute() calls each gets a timer of its own:
\* arming it fails for neither, it stays armed while the run is within its
\* budget, a run that exceeds its budget ends with status TIMEOUT, and no run
\* is timed out within its budget
C26_IndependentTimeouts ==
    \A r \in Runs :
        /\ rpc[r] = "done" => rstatus[r] \in {"success", "timeout"}
        /\ (rpc[r] = "graph" /\ ~rover[r]) => alarm = r
        /\ (rpc[r] = "done" /\ rover[r]) => rstatus[r] = "timeout"
        /\ rstatus[r] = "timeout" => rover[r]

\* --------------------------------------------------------- tool properties
\* s is a prefix of t
IsPrefix(s, t) == Len(s) <= Len(t) /\ \A i \in DOMAIN s : s[i] = t[i]

\* the step is a call of ToolRegistry.execute / of ToolExecution.run
ExecuteCalled == tops' = tops + 1 /\ tout'.op = "execute"
RunCalled == tops' = tops + 1 /\ tout'.op = "run"

\* C27: every call of ToolRegistry.execute appends exactly one observation to
\* state.observations, with success true exactly when the call returns
C27_ObservationLog ==
    [][ExecuteCalled =>
        /\ Len(tstate'.observations) = Len(tstate.observations) + 1
        /\ IsPrefix(tstate.observations, tstate'.observations)
        /\ tstate'.observations[Len(tstate'.observations)].success = (tout'.fault = Null)
      ]_vars

\* C28: the tool_calls of the update ToolExecution.run returns has the state's
\* tool_calls as a prefix
C28_ToolCallsAppendOnly ==
    [][(RunCalled /\ tout'.fault = Null) => IsPrefix(tstate.tool_calls, tout'.tool_calls)]_vars

\* C29: ToolExecution.run does not raise when the plan names a tool, and for
\* each named tool that is not registered and has no earlier record it returns
\* a ToolCall with success false and the error recorded
C29_ToolFaultsAbsorbed ==
    [][(RunCalled /\ extract_tool_calls(tstate.plan) # <<>>) =>
        /\ tout'.fault = Null
        /\ \A i \in DOMAIN tstate.plan :
            (tstate.plan[i] \in ToolNames \ tools
                /\ \A j \in DOMAIN tstate.tool_calls : tstate.tool_calls[j].name # tstate.plan[i])
            => \E k \in DOMAIN tout'.tool_calls :
                /\ tout'.tool_calls[k].name = tstate.plan[i]
                /\ ~tout'.tool_calls[k].success
                /\ tout'.tool_calls[k].error # Null
      ]_vars

\* ------------------------------------------------------- critic properties
\* the reason of the first failing check in the order (a) blank draft,
\* (b) failed tool call, (c) short draft, (d) retrieval required and no
\* documents, (e) analysis / task keyword check; "passed" when none fails
FirstFailing(state) ==
    IF state.draft_answer \in {Null, "blank"} THEN "empty"
    ELSE IF \E i \in DOMAIN state.tool_calls : ~state.tool_calls[i] THEN "tool_failed"
    ELSE IF state.draft_answer = "short" THEN "too_short"
    ELSE IF HasRetrievalStep(state.plan) /\ state.retrieved_docs \in {Null, "empty"}
    THEN "no_docs"
    ELSE IF state.intent = "analysis" /\ state.draft_answer = "bare"
            /\ HasAnalysisStep(state.plan)
    THEN "no_analysis"
    ELSE IF state.intent = "task" /\ state.draft_answer = "bare"
            /\ HasToolStep(state.plan) /\ state.tool_calls # <<>>
    THEN "no_task_status"
    ELSE "passed"

\* C30: the critic accepts exactly when no check fails, and else its reason is
\* that of the first failing check in the order (a) to (e)
C30_CheckOrder ==
    criticOut.fault = Null =>
        /\ (criticOut.update.critic_decision = "accept") <=> (FirstFailing(criticIn) = "passed")
        /\ FirstFailing(criticIn) # "passed"
            => criticOut.update.critic_reason = Reason(FirstFailing(criticIn))

\* ---------------------------------------------------- late graph properties
\* C31: for every critic_decision other than 'accept', 'retry' and 'fail',
\* None included, route_after_critic answers the planner, never END and never
\* a fault
C31_FailOpenRouting ==
    (routeOut # "unset" /\ routeIn.critic_decision \notin {"accept", "retry", "fail"})
        => routeOut = "planner"

\* the context a retry is to keep, and the fields a retry update may write
ContextOf(state) ==
    <<state.tool_calls, state.observations, state.memory, state.retrieved_docs,
      state.intent, state.user_query>>
RetryUpdateKeys == {"retries", "critic_decision", "critic_reason", "final_answer"}
CriticRetries == inStage /\ node = "critic" /\ node' = "planner"
PlannerReenters ==
    inStage /\ node = "planner" /\ node' = "retrieval_decision" /\ criticEvals > 0

\* C32: the critic's retry update writes none but retries, critic_decision,
\* critic_reason and final_answer, and the planner's re-entry after it leaves
\* tool_calls, observations, memory, retrieved_docs, intent and user_query as
\* they were
C32_ContextKept ==
    [][/\ CriticRetries => \A f \in DOMAIN st \ RetryUpdateKeys : st'[f] = st[f]
       /\ PlannerReenters => ContextOf(st') = ContextOf(st)
      ]_vars

\* C32 witness: the planner has run again after a retry, and the documents and
\* the intent of the first pass are still in the state
C32_Witness ==
    /\ node = "retrieval_decision" /\ ~inStage /\ criticEvals = 1
    /\ st.critic_decision = "retry"
    /\ st.retrieved_docs = "empty" /\ st.intent # Null /\ st.user_query = "q"

\* ------------------------------------------------------ late log properties
\* SpecLog with the scheduling the threads have: the dispatcher thread, once
\* started, runs, and a producer inside log_event finishes its call; nothing
\* obliges the controlling thread to call flush() or shutdown()
SpecLogFair ==
    /\ SpecLog
    /\ WF_vars(worker_loop)
    /\ \A p \in Producers : WF_vars(write_sync(p))

Queued(e) == \E i \in DOMAIN event_queue : event_queue[i] = e

\* C33: an event accepted into the queue is eventually written to every
\* working sink by the dispatcher's size or interval flush, with no further
\* event and no flush() or shutdown() call
C33_BoundedResponse ==
    \A e \in AllEvents :
        Queued(e) ~> (\/ fcalls > 0 \/ shut # "no"
                      \/ \A s \in Healthy : Count(written[s], e) = 1)

\* ------------------------------------------------------ late run properties
\* C34: a run called with an initial_state executes with that state's
\* max_retries in effect, from its start to its end
C34_InitialStateHonoured ==
    (mode \in {"execute", "execute_async"} /\ hist.initial_state.given)
        => st.max_retries = hist.initial_state.max_retries

\* C35: when execute / execute_async has returned, the trace's
\* node_execution_order has one entry for each stage that executed,
\* steps_count is the number of stages executed, and the Result reports that
\* steps_count
C35_TraceBookkeeping ==
    Returned =>
        /\ Len(trace.node_execution_order) = hist.completed
        /\ trace.steps_count = hist.completed
        /\ result.steps_count = trace.steps_count

\* C36: a trace that has its end_time has a termination_reason exactly when
\* its status is not SUCCESS
C36_TerminationReason ==
    (mode \in Modes /\ trace.ended)
        => ((trace.termination_reason # Null) <=> (trace.status # "success"))

\* C37: the Result of a run that ended in SUCCESS has triggered_rag true
\* exactly when the retrieval stage executed during the run
C37_TriggeredRag ==
    (Returned /\ result.status = "success")
        => (result.triggered_rag <=> hist.retrieval_ran)

\* C38: a stream() call executes the graph once, and every stage execution
\* has its 'node_execution' element
C38_StreamRunsOnce ==
    mode = "stream" => (gpass = 1 /\ hist.completed = hist.yielded)

Emitted(event_type) == \E i \in DOMAIN hist.events : hist.events[i] = event_type

\* C39: execution.started is the first event of a run, and a run that emitted
\* execution.completed ends with status SUCCESS and emitted neither an
\* exception nor a timeout event
C39_EventLifecycle ==
    (mode \in Modes \ {"graph"}) =>
        /\ hist.events # <<>> /\ Head(hist.events) = "execution.started"
        /\ (xpc = "done" /\ Emitted("execution.completed")) =>
            /\ result.status = "success"
            /\ ~Emitted("exception.raised")
            /\ ~Emitted("termination.timeout")

\* the event is in the sink after the step
InSinkAfter(s, e) == \E i \in DOMAIN written'[s] : written'[s][i] = e

====
